---------------------------- MODULE Spec2Model ----------------------------
(***************************************************************************)
(* Gaussian blur and unsharp-mask sharpening of orisano/imaging            *)
(* (effects.go): the separable convolution run as two parallel passes      *)
(* (rows, then columns) and Sharpen's parallel combine pass.               *)
(*                                                                         *)
(* Numbers.  Samples are uint8 (0..255).  A float64 is its 53-bit mantissa *)
(* and exponent, and +, * and / round to nearest, ties to even, as the     *)
(* hardware does; the values of gaussianBlurKernel are tabulated.  sigma   *)
(* is the rational sigma / SigmaDen.                                       *)
(***************************************************************************)
EXTENDS Integers, Sequences, FiniteSets, TLC

VARIABLES
    fma,       \* the build fuses r += scanLineF[i+0] * wa (g, b alike) into one rounding
    fmaAlpha,  \* the build fuses wa := scanLineF[i+3] * weight; a += wa into one rounding
    op,        \* "Blur" or "Sharpen": the exported function that was called
    img,       \* the source image (never written)
    sigma,     \* the sigma argument, in units of 1/SigmaDen
    procs,     \* runtime.GOMAXPROCS(0)
    pc,        \* position of the calling goroutine
    kernel,    \* Blur's kernel slice (<<>> until built)
    inter,     \* blurHorizontal's dst
    blurred,   \* blurVertical's dst, the value Blur returns
    dst,       \* Sharpen's dst
    result,    \* the image returned to the caller
    ch,        \* the channel of the running parallel call: indices not yet received
    workers,   \* the goroutines of the running parallel call
    writers,   \* history: per pass, for each dst.Pix index, the work units that wrote it
    nanSeen    \* history: some division had a zero divisor

vars == <<fma, fmaAlpha, op, img, sigma, procs, pc, kernel, inter, blurred, dst, result,
          ch, workers, writers, nanSeen>>

-----------------------------------------------------------------------------
(* Bounds of the model *)

MaxW == 3
MaxH == 3
MaxSigma == 2
MaxProcs == 2
MaxLine == 5

(* Representation of sigma *)

SigmaDen == 2

-----------------------------------------------------------------------------
(* Images: image.NRGBA with Rect(0, 0, w, h), Stride = 4*w,                *)
(* Pix indexed from 0.                                                     *)

Stride(im) == 4 * im.w

NoImage == [w |-> 0, h |-> 0, pix |-> <<>>]

NewNRGBA(w, h) == [w |-> w, h |-> h, pix |-> [i \in 0 .. (4 * w * h - 1) |-> 0]]

Clone(im) == [w |-> im.w, h |-> im.h, pix |-> [i \in 0 .. (4 * im.w * im.h - 1) |-> im.pix[i]]]

\* scanner.scan(x1, y1, x2, y2, dst) on an NRGBA source: the rectangle's
\* pixels, row by row, 4 samples each.
scan(im, x1, y1, x2, y2) ==
    LET rw == x2 - x1
        n  == 4 * rw * (y2 - y1)
    IN [i \in 0 .. (n - 1) |->
            LET p == i \div 4
                y == y1 + (p \div rw)
                x == x1 + (p % rw)
            IN im.pix[y * Stride(im) + 4 * x + (i % 4)]]

absint(i) == IF i < 0 THEN 0 - i ELSE i

-----------------------------------------------------------------------------
(* Evaluation helpers: a value computed once and then used several times.  *)

The(S) == CHOOSE v \in S : TRUE

\* F applied to the value of v.
Let(v, F(_)) == The({ F(u) : u \in {v} })

\* The function f with every element computed.
Eager(f) == f @@ <<>>

-----------------------------------------------------------------------------
(* Naturals below 2^64 as four limbs <<w1, w2, w3, w4>> of 16 bits, least  *)
(* significant first: the mantissas of float64 and their exact products,   *)
(* sums and quotients before rounding.                                     *)

B == 65536

Powers == <<1, 2, 4, 8, 16, 32, 64, 128, 256, 512, 1024, 2048, 4096, 8192,
            16384, 32768, 65536>>

\* 2^n, n in 0 .. 16
Pow2(n) == Powers[n + 1]

WZero == <<0, 0, 0, 0>>

\* The number a + b B + c B^2 + d B^3 with its carries (or borrows) propagated.
Carry4(a, b, c, d) ==
    LET t2 == b + (a \div B)
        t3 == c + (t2 \div B)
    IN <<a % B, t2 % B, t3 % B, d + (t3 \div B)>>

WAdd(x, y) == Carry4(x[1] + y[1], x[2] + y[2], x[3] + y[3], x[4] + y[4])

\* x - y, for x >= y
WSub(x, y) == Carry4(x[1] - y[1], x[2] - y[2], x[3] - y[3], x[4] - y[4])

\* x * n, n < 2^15
WMulSmall(x, n) == Carry4(x[1] * n, x[2] * n, x[3] * n, x[4] * n)

\* x < y
WLess(x, y) ==
    IF x[4] # y[4] THEN x[4] < y[4]
    ELSE IF x[3] # y[3] THEN x[3] < y[3]
    ELSE IF x[2] # y[2] THEN x[2] < y[2]
    ELSE x[1] < y[1]

\* floor(x / 2^r), 0 <= r < 16
Shr16(x, r) ==
    <<(x[1] \div Pow2(r)) + (x[2] % Pow2(r)) * Pow2(16 - r),
      (x[2] \div Pow2(r)) + (x[3] % Pow2(r)) * Pow2(16 - r),
      (x[3] \div Pow2(r)) + (x[4] % Pow2(r)) * Pow2(16 - r),
      x[4] \div Pow2(r)>>

\* x * 2^r, 0 <= r < 16, for a product below 2^64
Shl16(x, r) ==
    <<(x[1] % Pow2(16 - r)) * Pow2(r),
      (x[2] % Pow2(16 - r)) * Pow2(r) + (x[1] \div Pow2(16 - r)),
      (x[3] % Pow2(16 - r)) * Pow2(r) + (x[2] \div Pow2(16 - r)),
      (x[4] % Pow2(16 - r)) * Pow2(r) + (x[3] \div Pow2(16 - r))>>

\* floor(x / B^q)
ShrLimbs(x, q) ==
    IF q = 0 THEN x
    ELSE IF q = 1 THEN <<x[2], x[3], x[4], 0>>
    ELSE IF q = 2 THEN <<x[3], x[4], 0, 0>>
    ELSE IF q = 3 THEN <<x[4], 0, 0, 0>>
    ELSE WZero

\* floor(x / 2^k), k >= 0
WShr(x, k) == Let(ShrLimbs(x, k \div 16), LAMBDA y : Shr16(y, k % 16))

\* x mod 2^k # 0
WLowBits(x, k) ==
    IF k < 16 THEN x[1] % Pow2(k) # 0
    ELSE IF k < 32 THEN x[1] # 0 \/ x[2] % Pow2(k - 16) # 0
    ELSE IF k < 48 THEN x[1] # 0 \/ x[2] # 0 \/ x[3] % Pow2(k - 32) # 0
    ELSE IF k < 64 THEN x[1] # 0 \/ x[2] # 0 \/ x[3] # 0 \/ x[4] % Pow2(k - 48) # 0
    ELSE x # WZero

\* The number of bits of v, 0 < v < 2^16.
Len16(v) ==
    IF v < 256
    THEN IF v < 16 THEN (IF v < 4 THEN (IF v < 2 THEN 1 ELSE 2) ELSE (IF v < 8 THEN 3 ELSE 4))
         ELSE (IF v < 64 THEN (IF v < 32 THEN 5 ELSE 6) ELSE (IF v < 128 THEN 7 ELSE 8))
    ELSE IF v < 4096 THEN (IF v < 1024 THEN (IF v < 512 THEN 9 ELSE 10) ELSE (IF v < 2048 THEN 11 ELSE 12))
         ELSE (IF v < 16384 THEN (IF v < 8192 THEN 13 ELSE 14) ELSE (IF v < 32768 THEN 15 ELSE 16))

-----------------------------------------------------------------------------
(* float64.  Every float64 of the program is finite and non-negative but   *)
(* for the outcome of a division by zero.  A finite one is [m, e] with the *)
(* value m * 2^e and 2^52 <= m < 2^53, or m = 0 = e; nan marks the outcome *)
(* of a division by zero.  Each operation rounds its exact result to the   *)
(* nearest float64, ties to even (IEEE 754).                               *)

Float(m, e) == [m |-> m, e |-> e, nan |-> FALSE]

FZero == Float(WZero, 0)

\* 0.5
FHalf == Float(<<0, 0, 0, 16>>, 0 - 53)

\* The float64 nearest to (w + f) * 2^e, ties to even: w has 53 + s bits,
\* 0 <= s < 16, 0 <= f < 1, and sticky says f > 0.
RoundPack(w, e, s, sticky) ==
    IF s = 0 THEN Float(w, e)
    ELSE IF /\ (w[1] \div Pow2(s - 1)) % 2 = 1
            /\ (sticky \/ w[1] % Pow2(s - 1) # 0 \/ (w[1] \div Pow2(s)) % 2 = 1)
         THEN Let(Shr16(w, s), LAMBDA q :
                Let(WAdd(q, <<1, 0, 0, 0>>), LAMBDA q1 :
                    IF q1[4] = 32 THEN Float(<<0, 0, 0, 16>>, e + s + 1)
                    ELSE Float(q1, e + s)))
         ELSE Float(Shr16(w, s), e + s)

\* The float64 nearest to wt 2^et + wo 2^eo, for wt of lt bits, both
\* positive, the highest bit of the first term not below that of the second:
\* the first is brought to 62 bits, the second to its exponent.
AddRound(wt, et, lt, wo, eo) ==
    Let(et - (62 - lt) - eo, LAMBDA d :
        Let(Shl16(wt, 62 - lt), LAMBDA a :
            Let(IF d >= 64 THEN WZero ELSE IF d >= 0 THEN WShr(wo, d) ELSE Shl16(wo, 0 - d),
                LAMBDA b :
                    Let(WAdd(a, b), LAMBDA sum :
                        RoundPack(sum, d + eo, IF sum[4] >= 16384 THEN 10 ELSE 9,
                                  d > 0 /\ WLowBits(wo, d)))))) 

\* x + y
FAdd(x, y) ==
    IF x.m = WZero THEN y
    ELSE IF y.m = WZero THEN x
    ELSE IF x.e >= y.e THEN AddRound(x.m, x.e, 53, y.m, y.e)
    ELSE AddRound(y.m, y.e, 53, x.m, x.e)

\* float64(n) * x, n an integer in 0 .. 255
FMul(n, x) ==
    IF n = 0 \/ x.m = WZero THEN FZero
    ELSE Let(WMulSmall(x.m, n), LAMBDA w : RoundPack(w, x.e, Len16(w[4]) - 5, FALSE))

\* z + float64(n) * x with one rounding (a fused multiply-add)
FMulAdd(z, n, x) ==
    IF n = 0 \/ x.m = WZero THEN z
    ELSE IF z.m = WZero THEN FMul(n, x)
    ELSE Let(WMulSmall(x.m, n), LAMBDA w :
            Let(48 + Len16(w[4]), LAMBDA len :
                IF x.e + len >= z.e + 53 THEN AddRound(w, x.e, len, z.m, z.e)
                ELSE AddRound(z.m, z.e, 53, w, x.e)))

\* r - y * d
WSubMul(r, y, d) == Carry4(r[1] - y[1] * d, r[2] - y[2] * d, r[3] - y[3] * d, r[4] - y[4] * d)

\* Eleven more bits of the quotient by y: rem < y is the remainder so far
\* and ty is above y / 2^33.  The digit is estimated from the leading bits
\* and corrected.
DivDigit(rem, y, ty) ==
    Let(Shl16(rem, 11), LAMBDA r :
        Let((r[4] * 32768 + (r[3] \div 2)) \div ty, LAMBDA d :
            Let(WSubMul(r, y, d), LAMBDA r1 :
                IF WLess(r1, y) THEN [rem |-> r1, d |-> d]
                ELSE Let(WSub(r1, y), LAMBDA r2 :
                        IF WLess(r2, y) THEN [rem |-> r2, d |-> d + 1]
                        ELSE [rem |-> WSub(r2, y), d |-> d + 2]))))

\* n times eleven more bits; the quotient is kept as hi * 2^33 + mid * 2^22 + lo.
RECURSIVE DivDigits(_, _, _, _, _, _, _)
DivDigits(rem, y, ty, hi, mid, lo, n) ==
    IF n = 0 THEN [rem |-> rem, hi |-> hi, mid |-> mid, lo |-> lo]
    ELSE Let(DivDigit(rem, y, ty), LAMBDA s :
            IF n > 3 THEN DivDigits(s.rem, y, ty, hi * 2048 + s.d, mid, lo, n - 1)
            ELSE IF n = 3 THEN DivDigits(s.rem, y, ty, hi, s.d, lo, n - 1)
            ELSE DivDigits(s.rem, y, ty, hi, mid, lo * 2048 + s.d, n - 1))

\* hi * 2^33 + mid * 2^22 + lo, for mid < 2^11 and lo < 2^22
Wide(hi, mid, lo) ==
    <<lo % B, (lo \div B) + (mid % 1024) * 64, (mid \div 1024) + (hi % 32768) * 2, hi \div 32768>>

\* x / y: a zero divisor gives NaN (0/0) or an infinity.  The quotient of the
\* mantissas is taken to 55 binary places.
FDiv(x, y) ==
    IF y.m = WZero THEN [m |-> WZero, e |-> 0, nan |-> TRUE]
    ELSE IF x.m = WZero THEN FZero
    ELSE Let(IF WLess(x.m, y.m) THEN 0 ELSE 1, LAMBDA q0 :
            Let(IF q0 = 1 THEN WSub(x.m, y.m) ELSE x.m, LAMBDA rem :
                Let(DivDigits(rem, y.m, y.m[4] * 32768 + (y.m[3] \div 2) + 1, q0, 0, 0, 5), LAMBDA s :
                    Let(Wide(s.hi, s.mid, s.lo), LAMBDA q :
                        RoundPack(q, x.e - y.e - 55, 2 + q0, s.rem # WZero)))))

\* int64(x), capped at 256, for a finite x >= 0
Trunc(x) ==
    IF x.m = WZero \/ x.e + 53 <= 0 THEN 0
    ELSE IF x.e + 52 >= 8 THEN 256
    ELSE WShr(x.m, 0 - x.e)[1]

\* int64(x + 0.5), capped at 256
Round(x) == Let(FAdd(x, FHalf), LAMBDA y : Trunc(y))

\* clamp(x float64) uint8: rounds half up and clamps to 0..255.
clamp(x) ==
    IF x.nan THEN 0
    ELSE Let(Round(x), LAMBDA v :
            IF v > 255 THEN 255
            ELSE IF v > 0 THEN v
            ELSE 0)

\* uint8(v) of an int: the low 8 bits.
uint8(v) == v % 256

-----------------------------------------------------------------------------
(* Kernel *)

\* gaussianBlurKernel(x, sigma) = exp(-x^2 / (2 sigma^2)) / (sigma sqrt(2 pi))
\* in float64, as <<w1, w2, w3, w4, e>>.  Row s is sigma = s / SigmaDen,
\* column x + 1 is the distance x = 0 .. ceil(3 sigma).
GaussTable ==
    <<  <<<<13905, 13268, 34885, 25, -53>>,  \* 0.7978845608028654
          <<15062, 14056, 42164, 27, -56>>,  \* 0.10798193302637613
          <<46261, 58048, 35480, 17, -64>>>>,  \* 0.00026766045152977074
        <<<<13905, 13268, 34885, 25, -54>>,  \* 0.3989422804014327
          <<5944, 36403, 63717, 30, -55>>,  \* 0.24197072451914337
          <<15062, 14056, 42164, 27, -57>>,  \* 0.05399096651318806
          <<30345, 16343, 10017, 18, -60>>>>,  \* 0.0044318484119380075
        <<<<52961, 30690, 1411, 17, -54>>,  \* 0.2659615202676218
          <<36660, 47828, 17010, 27, -55>>,  \* 0.2129653370149015
          <<7212, 41463, 64949, 27, -56>>,  \* 0.10934004978399575
          <<10041, 31216, 28109, 18, -57>>,  \* 0.035993977675458706
          <<52828, 8950, 7775, 31, -60>>,  \* 0.007597324015864961
          <<4076, 20211, 55430, 16, -62>>>>,  \* 0.0010281859975274045
        <<<<13905, 13268, 34885, 25, -55>>,  \* 0.19947114020071635
          <<34477, 544, 34877, 22, -55>>,  \* 0.17603266338214976
          <<5944, 36403, 63717, 30, -56>>,  \* 0.12098536225957168
          <<7813, 22226, 37896, 16, -56>>,  \* 0.06475879783294587
          <<15062, 14056, 42164, 27, -58>>,  \* 0.02699548325659403
          <<21079, 21887, 62192, 17, -59>>,  \* 0.00876415024678427
          <<30345, 16343, 10017, 18, -61>>>>  >>  \* 0.0022159242059690038

gaussianBlurKernel(x, s) ==
    Let(GaussTable[s][x + 1], LAMBDA t : Float(<<t[1], t[2], t[3], t[4]>>, t[5]))

\* int(math.Ceil(sigma * 3.0))
Radius(s) == (3 * s + SigmaDen - 1) \div SigmaDen

\* kernel := make([]float64, radius+1); kernel[i] = gaussianBlurKernel(float64(i), sigma)
BuildKernel(s) == Eager([i \in 0 .. Radius(s) |-> gaussianBlurKernel(i, s)])

\* len(kernel) - 1
RadiusOf(k) == Cardinality(DOMAIN k) - 1

-----------------------------------------------------------------------------
(* One pixel of a 1-D pass: blurHorizontal lines 48-77, blurVertical       *)
(* lines 100-131.  line holds the float samples of the whole row or        *)
(* column (4 per pixel), n is its length in pixels, p the pixel.           *)

RangeMin(p, radius) == IF p - radius < 0 THEN 0 ELSE p - radius

\* Mutant: the upper clamp is one short (max = src.w - 2).
RangeMaxShort(p, radius, n) == IF p + radius > n - 1 THEN n - 2 ELSE p + radius

RangeMax(p, radius, n) == IF p + radius > n - 1 THEN n - 1 ELSE p + radius

\* var r, g, b, a, wsum float64
ZeroAcc == [r |-> FZero, g |-> FZero, b |-> FZero, a |-> FZero, wsum |-> FZero]

\* Mutant: the weight is taken at ix - min, the offset in the window, not at
\* the distance from p.
WeightFromMin(k, p, ix) ==
    LET off == ix - RangeMin(p, RadiusOf(k))
    IN k[IF off > RadiusOf(k) THEN RadiusOf(k) ELSE off]

\* weight := kernel[absint(x-ix)]
Weight(k, p, ix) == k[absint(p - ix)]

\* z += float64(n) * x: rounded twice, or once where the build fuses the
\* multiplication and the addition.  The language leaves the fusing to the
\* build, statement by statement: r += scanLineF[i+0] * wa (lines 63-65) may
\* be fused or not, and so may a += wa with wa := scanLineF[i+3] * weight
\* (lines 62, 66), where the other statements use the rounded product and a
\* is computed from the exact one.
MulAdd(fused, z, n, x) == IF fused THEN FMulAdd(z, n, x) ELSE FAdd(z, FMul(n, x))

\* The body of the inner loop (lines 59-66): neighbour i / 4 is added.
Add(acc, line, i, weight) ==
    Let(FMul(line[i + 3], weight), LAMBDA wa :
        [r    |-> MulAdd(fma, acc.r, line[i + 0], wa),
         g    |-> MulAdd(fma, acc.g, line[i + 1], wa),
         b    |-> MulAdd(fma, acc.b, line[i + 2], wa),
         a    |-> MulAdd(fmaAlpha, acc.a, line[i + 3], weight),
         wsum |-> FAdd(acc.wsum, weight)])

\* for ix := min; ix <= max; ix++ { ... }
RECURSIVE Accumulate(_, _, _, _, _, _)
Accumulate(ix, max, p, line, k, acc) ==
    IF ix > max THEN acc
    ELSE Let(Add(acc, line, ix * 4, Weight(k, p, ix)), LAMBDA next :
            Accumulate(ix + 1, max, p, line, k, next))

\* The accumulators of pixel p after the inner loop (lines 48-67, 100-120).
Sums(p, n, line, k) ==
    Accumulate(RangeMin(p, RadiusOf(k)), RangeMax(p, RadiusOf(k), n), p, line, k, ZeroAcc)

\* Mutant: the division is not guarded.
ColourNoGuard(c, a) == FDiv(c, a)

\* if a != 0 { r /= a; g /= a; b /= a }
Colour(c, a) == IF a # FZero THEN FDiv(c, a) ELSE c

\* The kernel's full mass: kernel[0] + 2 (kernel[1] + ... + kernel[radius]).
RECURSIVE FullMass(_, _)
FullMass(k, i) ==
    IF i > RadiusOf(k) THEN FZero
    ELSE FAdd(FMul(IF i = 0 THEN 1 ELSE 2, k[i]), FullMass(k, i + 1))

\* Mutant: alpha is normalised by the full kernel mass, not by the retained weights.
AlphaFullNorm(acc, k) == FDiv(acc.a, FullMass(k, 0))

\* a / wsum
Alpha(acc, k) == FDiv(acc.a, acc.wsum)

\* Lines 68-77: the four samples written, and whether a division had a zero divisor.
Output(acc, k) ==
    Let(<<Colour(acc.r, acc.a), Colour(acc.g, acc.a), Colour(acc.b, acc.a), Alpha(acc, k)>>,
        LAMBDA q :
            [px  |-> <<clamp(q[1]), clamp(q[2]), clamp(q[3]), clamp(q[4])>>,
             nan |-> q[1].nan \/ q[2].nan \/ q[3].nan \/ q[4].nan])

\* Pixel p of the line.
Pixel(p, n, line, k) == Let(Sums(p, n, line, k), LAMBDA acc : Output(acc, k))

-----------------------------------------------------------------------------
(* The per-line loops *)

\* buf[j+0], ..., buf[j+3] = px
Store(buf, j, px) ==
    [buf EXCEPT ![j + 0] = px[1], ![j + 1] = px[2], ![j + 2] = px[3], ![j + 3] = px[4]]

\* Mutant: the inputs are read from scanLine, which the loop overwrites.
InputInPlace(scanLine, scanLineF) == scanLine

\* The buffer the inner loop reads (lines 62-65): scanLineF.
Input(scanLine, scanLineF) == scanLineF

\* blurHorizontal lines 47-78: for x := 0; x < src.w; x++.  Inputs are read
\* from scanLineF; the results overwrite scanLine in place.
RECURSIVE HLoop(_, _, _, _, _, _)
HLoop(x, w, scanLine, scanLineF, k, nan) ==
    IF x >= w THEN [line |-> scanLine, nan |-> nan]
    ELSE Let(Pixel(x, w, Input(scanLine, scanLineF), k), LAMBDA q :
            Let(Store(scanLine, 4 * x, q.px), LAMBDA line :
                HLoop(x + 1, w, line, scanLineF, k, nan \/ q.nan)))

\* copy(dst.Pix[y*dst.Stride:], scanLine): the indices of dst.Pix written.
CopyIndices(pix, offset, line) ==
    LET room == Cardinality(DOMAIN pix) - offset
        n    == IF Cardinality(DOMAIN line) < room THEN Cardinality(DOMAIN line) ELSE room
    IN offset .. (offset + n - 1)

\* Mutant: x and y are exchanged.
VIndexSwapped(x, y, stride) == x * stride + y * 4

\* j := y*dst.Stride + x*4
VIndex(x, y, stride) == y * stride + x * 4

\* blurVertical lines 99-132: for y := 0; y < src.h; y++, writing dst.Pix.
RECURSIVE VLoop(_, _, _, _, _, _, _, _)
VLoop(y, h, x, stride, pix, scanLineF, k, nan) ==
    IF y >= h THEN [pix |-> pix, nan |-> nan]
    ELSE Let(Pixel(y, h, scanLineF, k), LAMBDA q :
            Let(Store(pix, VIndex(x, y, stride), q.px), LAMBDA next :
                VLoop(y + 1, h, x, stride, next, scanLineF, k, nan \/ q.nan)))

\* The dst.Pix indices column x writes.
VIndices(x, h, stride) ==
    UNION { VIndex(x, y, stride) .. (VIndex(x, y, stride) + 3) : y \in 0 .. (h - 1) }

\* Mutant: the upper clamp is missing, so uint8(val) wraps.
SharpenSampleWrap(orig, blur) ==
    LET val == 2 * orig - blur
    IN uint8(IF val < 0 THEN 0 ELSE val)

\* Sharpen lines 161-167: one sample.
SharpenSample(orig, blur) ==
    LET val == 2 * orig - blur
    IN uint8(IF val < 0 THEN 0 ELSE IF val > 255 THEN 255 ELSE val)

\* Sharpen lines 159-169: j := y * dst.Stride; for i := 0; i < src.w*4; i++.
SharpenIndices(y, w, stride) == (y * stride) .. (y * stride + 4 * w - 1)

-----------------------------------------------------------------------------
(* Inputs *)

Transparent == <<0, 0, 0, 0>>
Black == <<0, 0, 0, 255>>
Red == <<255, 0, 0, 255>>
White == <<255, 255, 255, 255>>
Teal == <<40, 120, 200, 255>>
Glass == <<40, 120, 200, 128>>

\* The colours of the uniform images.
Palette == {Transparent, Teal, Glass}

\* <<background, spot>>
Pairs == { <<Black, Red>>, <<Transparent, White>>, <<Glass, Red>> }

Uniform(w, h, c) == [w |-> w, h |-> h, pix |-> [i \in 0 .. (4 * w * h - 1) |-> c[(i % 4) + 1]]]

Spot(w, h, bg, fg, sx, sy) ==
    [w |-> w, h |-> h,
     pix |-> [i \in 0 .. (4 * w * h - 1) |->
                IF i \div 4 = sy * w + sx THEN fg[(i % 4) + 1] ELSE bg[(i % 4) + 1]]]

\* The spot's positions: a corner and the centre.
Spots(w, h) == { <<0, 0>>, <<w \div 2, h \div 2>> }

FromSamples(w, h, samples) == [w |-> w, h |-> h, pix |-> [i \in 0 .. (4 * w * h - 1) |-> samples[i + 1]]]

\* Images whose blurred samples lie within a rounding error of a half, so
\* that the byte written depends on the roundings of the sums (middle pixel,
\* rows at sigma 0.5, columns at sigma 1.0); for all but the first it differs
\* between builds.
Halves ==
    { FromSamples(3, 1, <<125, 0, 0, 255, 0, 0, 0, 0, 2, 0, 0, 255>>),
      FromSamples(1, 3, <<1, 0, 0, 123, 90, 0, 0, 0, 254, 0, 0, 123>>),
      FromSamples(3, 1, <<170, 142, 116, 1, 209, 5, 105, 0, 207, 43, 55, 5>>),
      FromSamples(1, 3, <<9, 237, 161, 127, 209, 132, 104, 0, 234, 68, 55, 85>>),
      FromSamples(3, 1, <<36, 0, 0, 164, 0, 0, 0, 0, 66, 90, 0, 76>>) }

\* The pixels of the long lines, repeated from the sixth on.  Veiled: three
\* transparent pixels with colour samples, then a translucent and an opaque
\* one.  Solid: opaque pixels of several colours.
Veiled == <<<<200, 100, 50, 0>>, <<10, 20, 30, 0>>, <<90, 60, 30, 0>>, Glass, Red>>
Solid == <<Red, Black, Teal, Black, White>>
FlatTeal == <<Teal, Teal, Teal, Teal, Teal>>

\* A row (across = TRUE) or a column of n pixels, pixel i being px[i mod 5].
Line(n, across, px) ==
    [w |-> IF across THEN n ELSE 1, h |-> IF across THEN 1 ELSE n,
     pix |-> [i \in 0 .. (4 * n - 1) |-> px[((i \div 4) % 5) + 1][(i % 4) + 1]]]

\* One row or one column of MaxLine pixels: longer than the radius, so that
\* a pixel has neighbours in the line that its window leaves out.
Lines ==
    UNION { { Line(MaxLine, across, Veiled), Line(MaxLine, across, Solid), Line(MaxLine, across, FlatTeal) }
            : across \in BOOLEAN }

\* The source images: every size up to MaxW x MaxH, uniform or with one spot,
\* the images of Halves and the long lines.
Images ==
    Halves \cup Lines
    \cup UNION { { Uniform(w, h, c) : c \in Palette }
                 \cup { Spot(w, h, pr[1], pr[2], xy[1], xy[2]) : pr \in Pairs, xy \in Spots(w, h) }
                 : w \in 1 .. MaxW, h \in 1 .. MaxH }

-----------------------------------------------------------------------------
(* parallel(start, stop, fn): the indices start..stop-1 are queued on a    *)
(* closed channel, min(GOMAXPROCS, count) goroutines run fn on it, and the *)
(* call returns when all of them have returned.                            *)

Zeros(n) == [i \in 0 .. (n - 1) |-> 0]

Indices(count) == [i \in 1 .. count |-> i - 1]

\* The goroutines, each with the buffers fn allocates before its loop.
Spawn(count, lenLine, lenLineF) ==
    [k \in 1 .. (IF procs > count THEN count ELSE procs) |->
        [st |-> "idle", idx |-> 0 - 1, scanLine |-> Zeros(lenLine), scanLineF |-> Zeros(lenLineF)]]

\* wg.Wait() returns: the channel is drained and every goroutine left its loop.
ParallelDone == ch = <<>> /\ \A k \in DOMAIN workers : workers[k].st = "idle"

Unwritten(im) == [i \in DOMAIN im.pix |-> {}]

\* Record that unit u wrote the indices in set is.
Wrote(wr, is, u) == [i \in DOMAIN wr |-> IF i \in is THEN wr[i] \cup {u} ELSE wr[i]]

-----------------------------------------------------------------------------
(* Initial state: a call of Blur or Sharpen *)

Init ==
    /\ fma \in BOOLEAN
    /\ fmaAlpha \in BOOLEAN
    /\ op \in {"Blur", "Sharpen"}
    /\ img \in Images
    /\ sigma \in (0 - 1) .. MaxSigma
    /\ procs \in 1 .. MaxProcs
    /\ pc = "start"
    /\ kernel = <<>>
    /\ inter = NoImage
    /\ blurred = NoImage
    /\ dst = NoImage
    /\ result = NoImage
    /\ ch = <<>>
    /\ workers = <<>>
    /\ writers = [h |-> <<>>, v |-> <<>>, s |-> <<>>]
    /\ nanSeen = FALSE

-----------------------------------------------------------------------------
(* Blur *)

\* Mutant: a new image of the same size is returned, the pixels are not copied.
BlurCloneBlank ==
    /\ pc = "start" /\ op = "Blur"
    /\ sigma <= 0
    /\ result' = NewNRGBA(img.w, img.h)
    /\ pc' = "done"
    /\ UNCHANGED <<fma, fmaAlpha, op, img, sigma, procs, kernel, inter, blurred, dst, ch, workers, writers, nanSeen>>

\* Blur lines 20-22: if sigma <= 0 { return Clone(img) }
BlurClone ==
    /\ pc = "start" /\ op = "Blur"
    /\ sigma <= 0
    /\ result' = Clone(img)
    /\ pc' = "done"
    /\ UNCHANGED <<fma, fmaAlpha, op, img, sigma, procs, kernel, inter, blurred, dst, ch, workers, writers, nanSeen>>

\* Blur lines 24-29: the kernel.  Reached from a call of Blur, or from Sharpen's call.
BlurKernel ==
    /\ \/ pc = "start" /\ op = "Blur"
       \/ pc = "blur"
    /\ sigma > 0
    /\ kernel' = BuildKernel(sigma)
    /\ pc' = "hstart"
    /\ UNCHANGED <<fma, fmaAlpha, op, img, sigma, procs, inter, blurred, dst, result, ch, workers, writers, nanSeen>>

\* blurHorizontal lines 35-39: dst is allocated and parallel(0, src.h, ...) starts.
blurHorizontalBegin ==
    /\ pc = "hstart"
    /\ inter' = NewNRGBA(img.w, img.h)
    /\ ch' = Indices(img.h)
    /\ workers' = Spawn(img.h, img.w * 4, img.w * 4)
    /\ writers' = [writers EXCEPT !.h = Unwritten(inter')]
    /\ pc' = "horizontal"
    /\ UNCHANGED <<fma, fmaAlpha, op, img, sigma, procs, kernel, blurred, dst, result, nanSeen>>

\* Mutant: only the first row a goroutine receives is converted to float64.
HScanStale(k, y) ==
    Let(Eager(scan(img, 0, y, img.w, y + 1)), LAMBDA line :
        [st |-> "busy", idx |-> y, scanLine |-> line,
         scanLineF |-> IF workers[k].idx < 0
                       THEN [i \in DOMAIN workers[k].scanLineF |-> line[i]]
                       ELSE workers[k].scanLineF])

\* blurHorizontal lines 42-46: y is received, the row is scanned and converted.
HScan(k, y) ==
    Let(Eager(scan(img, 0, y, img.w, y + 1)), LAMBDA line :
        [st |-> "busy", idx |-> y, scanLine |-> line,
         scanLineF |-> [i \in DOMAIN workers[k].scanLineF |-> line[i]]])

blurHorizontalRecv(k) ==
    /\ pc = "horizontal"
    /\ workers[k].st = "idle"
    /\ ch # <<>>
    /\ workers' = [workers EXCEPT ![k] = HScan(k, Head(ch))]
    /\ ch' = Tail(ch)
    /\ UNCHANGED <<fma, fmaAlpha, op, img, sigma, procs, pc, kernel, inter, blurred, dst, result, writers, nanSeen>>

\* blurHorizontal lines 47-79: the row is convolved and copied into dst.
blurHorizontalLine(k) ==
    /\ pc = "horizontal"
    /\ workers[k].st = "busy"
    /\ \E res \in {HLoop(0, img.w, workers[k].scanLine, workers[k].scanLineF, kernel, FALSE)} :
       \E off \in {workers[k].idx * Stride(inter)} :
       \E is \in {CopyIndices(inter.pix, off, res.line)} :
          /\ inter' = [inter EXCEPT !.pix =
                          [i \in DOMAIN inter.pix |-> IF i \in is THEN res.line[i - off] ELSE inter.pix[i]]]
          /\ workers' = [workers EXCEPT ![k].st = "idle", ![k].scanLine = res.line]
          /\ writers' = [writers EXCEPT !.h = Wrote(writers.h, is, workers[k].idx)]
          /\ nanSeen' = (nanSeen \/ res.nan)
    /\ UNCHANGED <<fma, fmaAlpha, op, img, sigma, procs, pc, kernel, blurred, dst, result, ch>>

\* Mutant: width and height are exchanged.
VerticalDstSwapped(src) == NewNRGBA(src.h, src.w)

\* blurVertical line 88: dst := image.NewNRGBA(image.Rect(0, 0, src.w, src.h))
VerticalDst(src) == NewNRGBA(src.w, src.h)

\* Mutant: the vertical pass starts when the rows have been handed out, without
\* waiting for the goroutines that still work on one.
blurVerticalBeginNoWait ==
    /\ pc = "horizontal"
    /\ ch = <<>>
    /\ blurred' = VerticalDst(inter)
    /\ ch' = Indices(inter.w)
    /\ workers' = Spawn(inter.w, inter.h * 4, inter.h * 4)
    /\ writers' = [writers EXCEPT !.v = Unwritten(blurred')]
    /\ pc' = "vertical"
    /\ UNCHANGED <<fma, fmaAlpha, op, img, sigma, procs, kernel, inter, dst, result, nanSeen>>

\* blurHorizontal returns dst (line 83) once parallel has returned;
\* blurVertical lines 87-91: its dst is allocated and parallel(0, src.w, ...) starts.
blurVerticalBegin ==
    /\ pc = "horizontal"
    /\ ParallelDone
    /\ blurred' = VerticalDst(inter)
    /\ ch' = Indices(inter.w)
    /\ workers' = Spawn(inter.w, inter.h * 4, inter.h * 4)
    /\ writers' = [writers EXCEPT !.v = Unwritten(blurred')]
    /\ pc' = "vertical"
    /\ UNCHANGED <<fma, fmaAlpha, op, img, sigma, procs, kernel, inter, dst, result, nanSeen>>

\* blurVertical lines 94-98: x is received, the column is scanned and converted.
VScan(k, x) ==
    Let(Eager(scan(inter, x, 0, x + 1, inter.h)), LAMBDA line :
        [st |-> "busy", idx |-> x, scanLine |-> line,
         scanLineF |-> [i \in DOMAIN workers[k].scanLineF |-> line[i]]])

blurVerticalRecv(k) ==
    /\ pc = "vertical"
    /\ workers[k].st = "idle"
    /\ ch # <<>>
    /\ workers' = [workers EXCEPT ![k] = VScan(k, Head(ch))]
    /\ ch' = Tail(ch)
    /\ UNCHANGED <<fma, fmaAlpha, op, img, sigma, procs, pc, kernel, inter, blurred, dst, result, writers, nanSeen>>

\* blurVertical lines 99-132: the column is convolved into dst.Pix.
blurVerticalColumn(k) ==
    /\ pc = "vertical"
    /\ workers[k].st = "busy"
    /\ \E x \in {workers[k].idx} :
       \E res \in {VLoop(0, inter.h, x, Stride(blurred), blurred.pix, workers[k].scanLineF, kernel, FALSE)} :
       \E is \in {VIndices(x, inter.h, Stride(blurred))} :
          /\ blurred' = [blurred EXCEPT !.pix = res.pix]
          /\ workers' = [workers EXCEPT ![k].st = "idle"]
          /\ writers' = [writers EXCEPT !.v = Wrote(writers.v, is, x)]
          /\ nanSeen' = (nanSeen \/ res.nan)
    /\ UNCHANGED <<fma, fmaAlpha, op, img, sigma, procs, pc, kernel, inter, dst, result, ch>>

\* blurVertical returns dst (line 136) and Blur returns it (line 31) to the caller.
BlurReturn ==
    /\ pc = "vertical" /\ op = "Blur"
    /\ ParallelDone
    /\ result' = blurred
    /\ pc' = "done"
    /\ UNCHANGED <<fma, fmaAlpha, op, img, sigma, procs, kernel, inter, blurred, dst, ch, workers, writers, nanSeen>>

-----------------------------------------------------------------------------
(* Sharpen *)

\* Sharpen lines 147-149: if sigma <= 0 { return Clone(img) }
SharpenClone ==
    /\ pc = "start" /\ op = "Sharpen"
    /\ sigma <= 0
    /\ result' = Clone(img)
    /\ pc' = "done"
    /\ UNCHANGED <<fma, fmaAlpha, op, img, sigma, procs, kernel, inter, blurred, dst, ch, workers, writers, nanSeen>>

\* Sharpen lines 151-153: dst is allocated and Blur(img, sigma) is called.
SharpenBegin ==
    /\ pc = "start" /\ op = "Sharpen"
    /\ sigma > 0
    /\ dst' = NewNRGBA(img.w, img.h)
    /\ pc' = "blur"
    /\ UNCHANGED <<fma, fmaAlpha, op, img, sigma, procs, kernel, inter, blurred, result, ch, workers, writers, nanSeen>>

\* Sharpen lines 153-155: Blur has returned blurred; parallel(0, src.h, ...) starts.
SharpenCombineBegin ==
    /\ pc = "vertical" /\ op = "Sharpen"
    /\ ParallelDone
    /\ ch' = Indices(img.h)
    /\ workers' = Spawn(img.h, img.w * 4, 0)
    /\ writers' = [writers EXCEPT !.s = Unwritten(dst)]
    /\ pc' = "combine"
    /\ UNCHANGED <<fma, fmaAlpha, op, img, sigma, procs, kernel, inter, blurred, dst, result, nanSeen>>

\* Sharpen lines 157-158: y is received and the source row is scanned.
SharpenRecv(k) ==
    /\ pc = "combine"
    /\ workers[k].st = "idle"
    /\ ch # <<>>
    /\ workers' = [workers EXCEPT ![k].st = "busy", ![k].idx = Head(ch),
                                  ![k].scanLine = scan(img, 0, Head(ch), img.w, Head(ch) + 1)]
    /\ ch' = Tail(ch)
    /\ UNCHANGED <<fma, fmaAlpha, op, img, sigma, procs, pc, kernel, inter, blurred, dst, result, writers, nanSeen>>

\* Sharpen lines 159-169: the row of 2*original - blurred, clamped.
SharpenRow(k) ==
    /\ pc = "combine"
    /\ workers[k].st = "busy"
    /\ \E y \in {workers[k].idx} :
       \E j0 \in {y * Stride(dst)} :
       \E is \in {SharpenIndices(y, img.w, Stride(dst))} :
          /\ dst' = [dst EXCEPT !.pix =
                        [j \in DOMAIN dst.pix |->
                            IF j \in is
                            THEN SharpenSample(workers[k].scanLine[j - j0], blurred.pix[j])
                            ELSE dst.pix[j]]]
          /\ writers' = [writers EXCEPT !.s = Wrote(writers.s, is, y)]
    /\ workers' = [workers EXCEPT ![k].st = "idle"]
    /\ UNCHANGED <<fma, fmaAlpha, op, img, sigma, procs, pc, kernel, inter, blurred, result, ch, nanSeen>>

\* Sharpen line 173: return dst, once parallel has returned.
SharpenReturn ==
    /\ pc = "combine"
    /\ ParallelDone
    /\ result' = dst
    /\ pc' = "done"
    /\ UNCHANGED <<fma, fmaAlpha, op, img, sigma, procs, kernel, inter, blurred, dst, ch, workers, writers, nanSeen>>

-----------------------------------------------------------------------------

Next ==
    \/ BlurClone
    \/ BlurKernel
    \/ blurHorizontalBegin
    \/ \E k \in DOMAIN workers : blurHorizontalRecv(k)
    \/ \E k \in DOMAIN workers : blurHorizontalLine(k)
    \/ blurVerticalBegin
    \/ \E k \in DOMAIN workers : blurVerticalRecv(k)
    \/ \E k \in DOMAIN workers : blurVerticalColumn(k)
    \/ BlurReturn
    \/ SharpenClone
    \/ SharpenBegin
    \/ SharpenCombineBegin
    \/ \E k \in DOMAIN workers : SharpenRecv(k)
    \/ \E k \in DOMAIN workers : SharpenRow(k)
    \/ SharpenReturn

Spec == Init /\ [][Next]_vars

-----------------------------------------------------------------------------
(* Reference definitions used by the properties *)

Row(im, y) == Eager(scan(im, 0, y, im.w, y + 1))

Col(im, x) == Eager(scan(im, x, 0, x + 1, im.h))

Clamp255(v) == IF v < 0 THEN 0 ELSE IF v > 255 THEN 255 ELSE v

\* The pixels of a line of n pixels, each as a function of the line alone.
RefLine(n, line, k) ==
    Let(line, LAMBDA l : Eager([p \in 0 .. (n - 1) |-> Pixel(p, n, l, k).px]))

\* Each sample as a function of the source row alone.
RefHorizontal(im, k) ==
    Let(Eager([y \in 0 .. (im.h - 1) |-> RefLine(im.w, Row(im, y), k)]), LAMBDA rows :
        [w |-> im.w, h |-> im.h,
         pix |-> Eager([i \in DOMAIN im.pix |->
                    rows[i \div Stride(im)][(i % Stride(im)) \div 4][(i % 4) + 1]])])

\* Each sample as a function of the source column alone.
RefVertical(im, k) ==
    Let(Eager([x \in 0 .. (im.w - 1) |-> RefLine(im.h, Col(im, x), k)]), LAMBDA cols :
        [w |-> im.w, h |-> im.h,
         pix |-> Eager([i \in DOMAIN im.pix |->
                    cols[(i % Stride(im)) \div 4][i \div Stride(im)][(i % 4) + 1]])])

RefBlur(im, s) ==
    Let(BuildKernel(s), LAMBDA k :
        Let(RefHorizontal(im, k), LAMBDA h : RefVertical(h, k)))

RefSharpen(im, s) ==
    Let(RefBlur(im, s), LAMBDA bl :
        [w |-> im.w, h |-> im.h,
         pix |-> Eager([i \in DOMAIN im.pix |-> Clamp255(2 * im.pix[i] - bl.pix[i])])])

\* The passes that have returned.
HorizontalDone == pc \in {"vertical", "combine", "done"} /\ sigma > 0
VerticalDone == (pc \in {"combine", "done"} /\ sigma > 0) \/ (pc = "vertical" /\ ParallelDone)
CombineDone == pc = "done" /\ sigma > 0 /\ op = "Sharpen"

\* The states in which a pass has just returned.
HorizontalReturns == pc = "vertical" /\ Len(ch) = img.w
VerticalReturns == (pc = "done" /\ sigma > 0 /\ op = "Blur") \/ (pc = "combine" /\ Len(ch) = img.h)

FlatOpaque(im) == \A i \in DOMAIN im.pix : im.pix[i] = im.pix[i % 4] /\ im.pix[3] = 255

Opaque(line) == \A i \in DOMAIN line : i % 4 = 3 => line[i] = 255

\* The neighbours of p on a line of n pixels, as the specification states them.
Neighbours(p, n, radius) == { i \in 0 .. (n - 1) : absint(p - i) <= radius }

\* acc + the sum of kernel[|p - i|] over the neighbours i >= from, added in
\* ascending order.
RECURSIVE KernelMass(_, _, _, _, _)
KernelMass(from, n, p, k, acc) ==
    IF from >= n THEN acc
    ELSE Let(IF from \in Neighbours(p, n, RadiusOf(k)) THEN FAdd(acc, k[absint(p - from)]) ELSE acc,
             LAMBDA next : KernelMass(from + 1, n, p, k, next))

\* acc + the sum of alpha_i * kernel[|p - i|] over the neighbours i >= from,
\* added in ascending order, each term added as the build adds it.
RECURSIVE AlphaMass(_, _, _, _, _, _)
AlphaMass(from, n, p, k, line, acc) ==
    IF from >= n THEN acc
    ELSE Let(IF from \in Neighbours(p, n, RadiusOf(k))
             THEN MulAdd(fmaAlpha, acc, line[4 * from + 3], k[absint(p - from)])
             ELSE acc,
             LAMBDA next : AlphaMass(from + 1, n, p, k, line, next))

\* a_sum / wsum over the stated neighbours, rounded to a sample.
RefAlpha(p, n, line, k) ==
    Let(FDiv(AlphaMass(0, n, p, k, line, FZero), KernelMass(0, n, p, k, FZero)), LAMBDA q : clamp(q))

\* The alphas of a line of n pixels.
RefAlphas(n, line, k) ==
    Let(line, LAMBDA l : Eager([p \in 0 .. (n - 1) |-> RefAlpha(p, n, l, k)]))

RECURSIVE RedSumFrom(_, _)
RedSumFrom(im, p) == IF p >= im.w * im.h THEN 0 ELSE im.pix[4 * p] + RedSumFrom(im, p + 1)

RedSum(im) == RedSumFrom(im, 0)

-----------------------------------------------------------------------------
(* Properties *)

\* C1: for sigma <= 0, Blur and Sharpen return an image equal to the source in
\* every sample; no kernel is built and no pass runs.
C1_Identity ==
    (pc = "done" /\ sigma <= 0) =>
        /\ result.w = img.w /\ result.h = img.h /\ result.pix = img.pix
        /\ kernel = <<>>
        /\ inter = NoImage /\ blurred = NoImage /\ dst = NoImage
        /\ writers = [h |-> <<>>, v |-> <<>>, s |-> <<>>]

C1_Witness ==
    /\ pc = "done" /\ sigma = 0 /\ op = "Blur"
    /\ img = Spot(2, 2, Black, Red, 1, 1)
    /\ result.pix = img.pix

\* C2: a uniformly opaque single-colour image is returned unchanged by Blur
\* and by Sharpen for sigma > 0, edge pixels included.
C2_FlatFixedPoint ==
    (FlatOpaque(img) /\ sigma > 0) =>
        /\ VerticalDone => blurred.pix = img.pix
        /\ pc = "done" => result.pix = img.pix

C2_Witness ==
    /\ pc = "done" /\ sigma = MaxSigma /\ op = "Sharpen"
    /\ img = Uniform(MaxW, MaxH, Teal)
    /\ blurred.pix = img.pix /\ result.pix = img.pix

\* C3: for sigma > 0 every sample of Sharpen's result, alpha included, is
\* clamp(2 * original - blurred, 0, 255) with blurred the sample of Blur(img, sigma).
C3_Unsharp ==
    CombineDone =>
        /\ blurred = RefBlur(img, sigma)
        /\ \A i \in DOMAIN img.pix :
              result.pix[i] = Clamp255(2 * img.pix[i] - blurred.pix[i])

C3_Witness ==
    /\ CombineDone
    /\ \E i \in DOMAIN img.pix : 2 * img.pix[i] - blurred.pix[i] > 255 /\ result.pix[i] = 255
    /\ \E i \in DOMAIN img.pix : 2 * img.pix[i] - blurred.pix[i] < 0 /\ result.pix[i] = 0
    /\ \E i \in DOMAIN img.pix : i % 4 = 3 /\ 2 * img.pix[i] - blurred.pix[i] \in 1 .. 254

\* C4 as stated: for the 3x3 opaque image with a red centre and sigma = 1.0,
\* each pass keeps the sum of the red channel within 0.5 per pixel.
C4Image == Spot(3, 3, Black, Red, 1, 1)

C4Case == img = C4Image /\ sigma = SigmaDen

C4_MassConserved ==
    C4Case =>
        /\ HorizontalDone => 2 * absint(RedSum(inter) - RedSum(img)) <= 9
        /\ VerticalDone => 2 * absint(RedSum(blurred) - RedSum(inter)) <= 9

\* C4 amended: the truncated kernel is renormalised at the edges, so the red
\* sum grows in each pass: 255 in the source, 293 after the horizontal pass,
\* 336 after the vertical pass.
C4_MassGrows ==
    C4Case =>
        /\ RedSum(img) = 255
        /\ HorizontalDone => RedSum(inter) = 293
        /\ VerticalDone => RedSum(blurred) = 336

C4_Witness == C4Case /\ pc = "done" /\ op = "Blur" /\ RedSum(result) = 336

\* C5: in every pass a dst.Pix index is written only by the work unit of its
\* row (horizontal, combine) or column (vertical), so no sample has two
\* writers, and the units' write sets together cover the buffer.
C5_DisjointWrites ==
    /\ \A i \in DOMAIN writers.h : writers.h[i] \subseteq {i \div Stride(inter)}
    /\ \A i \in DOMAIN writers.v : writers.v[i] \subseteq {(i % Stride(blurred)) \div 4}
    /\ \A i \in DOMAIN writers.s : writers.s[i] \subseteq {i \div Stride(dst)}
    /\ inter # NoImage =>
          UNION { CopyIndices(inter.pix, y * Stride(inter), Zeros(4 * img.w)) : y \in 0 .. (img.h - 1) }
              = DOMAIN inter.pix
    /\ blurred # NoImage =>
          UNION { VIndices(x, inter.h, Stride(blurred)) : x \in 0 .. (inter.w - 1) }
              = DOMAIN blurred.pix
    /\ dst # NoImage =>
          UNION { SharpenIndices(y, img.w, Stride(dst)) : y \in 0 .. (img.h - 1) }
              = DOMAIN dst.pix

C5_Witness ==
    /\ pc = "vertical"
    /\ \E k1, k2 \in DOMAIN workers :
          /\ workers[k1].st = "busy" /\ workers[k2].st = "busy"
          /\ workers[k1].idx # workers[k2].idx
    /\ \E i \in DOMAIN writers.v : writers.v[i] # {}

\* C6: a pass starts, and the call returns, only after every work unit of the
\* pass before has finished: the intermediate image is fully written before
\* the vertical pass, the blurred image before the combine pass, and the
\* result before the return.
C6_Barrier ==
    /\ HorizontalDone => \A i \in DOMAIN inter.pix : writers.h[i] # {}
    /\ (pc \in {"combine", "done"} /\ sigma > 0) =>
          \A i \in DOMAIN blurred.pix : writers.v[i] # {}
    /\ CombineDone => \A i \in DOMAIN dst.pix : writers.s[i] # {}
    /\ pc = "done" => ch = <<>> /\ \A k \in DOMAIN workers : workers[k].st = "idle"
    /\ (pc = "done" /\ sigma > 0) =>
          \A i \in DOMAIN result.pix :
              Cardinality(IF op = "Blur" THEN writers.v[i] ELSE writers.s[i]) = 1

C6_Witness ==
    /\ pc = "vertical"
    /\ Cardinality(DOMAIN workers) >= 2
    /\ \E k \in DOMAIN workers : workers[k].st = "busy"
    /\ \A i \in DOMAIN inter.pix : writers.h[i] # {}

\* C7: the images depend on the source and sigma only, not on the number of
\* goroutines, on which goroutine receives which index, or on the
\* interleaving: each is the per-sample function of its input, and a
\* goroutine's float buffer holds the line it received.
C7_Deterministic ==
    /\ \A k \in DOMAIN workers :
          (pc = "horizontal" /\ workers[k].st = "busy") =>
              workers[k].scanLineF = Row(img, workers[k].idx)
    /\ HorizontalReturns => inter = RefHorizontal(img, kernel)
    /\ VerticalReturns => blurred = RefVertical(inter, kernel)
    /\ (pc = "done" /\ sigma > 0) =>
          result = IF op = "Blur" THEN RefBlur(img, sigma) ELSE RefSharpen(img, sigma)

C7_Witness ==
    /\ pc = "done" /\ sigma > 0 /\ op = "Sharpen"
    /\ Cardinality(DOMAIN workers) >= 2
    /\ img.h > Cardinality(DOMAIN workers)
    /\ img = Spot(img.w, img.h, Glass, Red, 0, 0)
    /\ result = RefSharpen(img, sigma)

\* C8: the intermediate image and the images Blur and Sharpen return have
\* the source's width and height, for every sigma.
SameSize(im) == im.w = img.w /\ im.h = img.h /\ DOMAIN im.pix = 0 .. (4 * img.w * img.h - 1)

C8_Dimensions ==
    /\ inter # NoImage => SameSize(inter)
    /\ blurred # NoImage => SameSize(blurred)
    /\ dst # NoImage => SameSize(dst)
    /\ pc = "done" => SameSize(result)
    /\ HorizontalDone => inter # NoImage

C8_Witness ==
    /\ pc = "done" /\ sigma > 0 /\ op = "Sharpen"
    /\ img.w # img.h
    /\ SameSize(inter) /\ SameSize(result)

\* The alphas of line out are a_sum / wsum of line in, and 255 if in is opaque.
AlphaAgrees(n, in, out, k) ==
    Let(RefAlphas(n, in, k), LAMBDA as :
        \A p \in 0 .. (n - 1) :
            /\ out[4 * p + 3] = as[p]
            /\ Opaque(in) => out[4 * p + 3] = 255)

\* C9: the neighbours of p are exactly those within the radius and inside the
\* line, each weighted by kernel[|p - i|]; alpha is a_sum / wsum over them; a
\* line whose alphas are all 255 keeps alpha 255 everywhere.
C9_EdgeRenormalised ==
    /\ kernel # <<>> =>
          \A n \in {img.w, img.h} : \A p \in 0 .. (n - 1) :
              /\ RangeMin(p, RadiusOf(kernel)) .. RangeMax(p, RadiusOf(kernel), n)
                    = Neighbours(p, n, RadiusOf(kernel))
              /\ \A i \in Neighbours(p, n, RadiusOf(kernel)) : absint(p - i) \in DOMAIN kernel
    /\ HorizontalReturns =>
          \A y \in 0 .. (img.h - 1) : AlphaAgrees(img.w, Row(img, y), Row(inter, y), kernel)
    /\ VerticalReturns =>
          \A x \in 0 .. (img.w - 1) : AlphaAgrees(img.h, Col(inter, x), Col(blurred, x), kernel)

\* An opaque row longer than the radius: the windows of its end pixels leave
\* out pixels of the row, that of the middle pixel is whole.
C9_Witness ==
    /\ pc = "done" /\ op = "Blur" /\ sigma > 0
    /\ img = Line(MaxLine, TRUE, Solid)
    /\ RadiusOf(kernel) = Radius(sigma) /\ Radius(sigma) >= 2
    /\ RangeMax(0, RadiusOf(kernel), img.w) < img.w - 1
    /\ RangeMin(img.w - 1, RadiusOf(kernel)) > 0
    /\ \E p \in 0 .. (img.w - 1) :
          /\ RangeMin(p, RadiusOf(kernel)) = p - RadiusOf(kernel)
          /\ RangeMax(p, RadiusOf(kernel), img.w) = p + RadiusOf(kernel)
    /\ \A x \in 0 .. (img.w - 1) : result.pix[4 * x + 3] = 255

\* C10: when every retained neighbour has alpha 0 the pixel written is
\* (0, 0, 0, 0) and nothing is divided by a_sum; wsum is positive for every
\* pixel, so no division has a zero divisor.
AllTransparent(p, n, line, radius) ==
    \A i \in RangeMin(p, radius) .. RangeMax(p, radius, n) : line[4 * i + 3] = 0

PixelAt(line, p) == <<line[4 * p], line[4 * p + 1], line[4 * p + 2], line[4 * p + 3]>>

\* Every pixel of line out whose retained neighbours in line in are all
\* transparent is (0, 0, 0, 0).
GuardAgrees(n, in, out, k) ==
    \A p \in 0 .. (n - 1) :
        AllTransparent(p, n, in, RadiusOf(k)) => PixelAt(out, p) = <<0, 0, 0, 0>>

C10_ZeroAlphaGuard ==
    /\ ~nanSeen
    /\ pc = "hstart" =>
          \A n \in {img.w, img.h} : \A p \in 0 .. (n - 1) :
              /\ p \in RangeMin(p, RadiusOf(kernel)) .. RangeMax(p, RadiusOf(kernel), n)
              /\ Sums(p, n, Zeros(4 * n), kernel).wsum # FZero
    /\ HorizontalReturns =>
          \A y \in 0 .. (img.h - 1) : GuardAgrees(img.w, Row(img, y), Row(inter, y), kernel)
    /\ VerticalReturns =>
          \A x \in 0 .. (img.w - 1) : GuardAgrees(img.h, Col(inter, x), Col(blurred, x), kernel)

\* A row whose first pixel has a window of transparent pixels with colour
\* samples, and further pixels that are not transparent.
C10_Witness ==
    /\ pc = "done" /\ op = "Blur" /\ sigma > 0
    /\ img = Line(MaxLine, TRUE, Veiled)
    /\ AllTransparent(0, img.w, Row(img, 0), RadiusOf(kernel))
    /\ \E i \in 0 .. RangeMax(0, RadiusOf(kernel), img.w) : Row(img, 0)[4 * i] > 0
    /\ ~AllTransparent(img.w - 1, img.w, Row(img, 0), RadiusOf(kernel))
    /\ PixelAt(Row(inter, 0), 0) = <<0, 0, 0, 0>>
    /\ PixelAt(Row(inter, 0), img.w - 1)[4] > 0
    /\ ~nanSeen

=============================================================================
